---- MODULE Spec2Model ----
(***************************************************************************)
(* A model of lib/VerifiableCredentialStore.js: the credential store      *)
(* facade (get, find, match, insert, delete), its query-by-example         *)
(* expansion and its issuer validation, over an encrypted document vault   *)
(* (the edvClient collaborator) that is modelled at its interface.         *)
(*                                                                         *)
(* JavaScript values are modelled as strings and records.  Undefined       *)
(* stands for the value undefined (an absent property or argument).        *)
(***************************************************************************)
EXTENDS Integers, Sequences, FiniteSets, TLC

VARIABLES
  docs,        \* the documents the vault holds
  pc,          \* "idle", where the call in progress is suspended, or "done"
  call,        \* the arguments of the current (or last) call
  out,         \* how the current (or last) call ended
  log,         \* the collaborator calls made so far by the current call
  before,      \* the vault's documents when the current call started
  callerMeta,  \* the caller's meta object as the insert call left it
  held,        \* the document an in-flight delete found
  pending,     \* clause lookups dispatched and not yet completed
  responses    \* completed lookups, in completion order

vars == <<docs, pc, call, out, log, before, callerMeta, held, pending, responses>>

-----------------------------------------------------------------------------
(* Bounds and input domains *)

MaxLen == 2
MaxClauses == 2
MaxSpecs == 2

Undefined == "undefined"

Types == {"A", "B"}
IssuerIds == {"x", "y"}
VaultDocIds == {"g1", "g2"}

\* A JavaScript value is falsy when it is undefined, the empty string or false.
Truthy(v) == v \notin {Undefined, "", "false"}

\* credential.issuer: kind is the typeof of the value; for a string, id is the
\* string itself, for an object, id is its id property (Undefined when the
\* object has no string id), for undefined and a number there is no id.
IssuerValue(kind, id) == [kind |-> kind, id |-> id]

InvalidIssuers ==
  { IssuerValue("undefined", Undefined),
    IssuerValue("object", Undefined),
    IssuerValue("number", Undefined) }

Credential(id, type, issuer) == [id |-> id, type |-> type, issuer |-> issuer]

\* The caller's meta argument: NoMeta when the argument is absent.
NoMeta == [absent |-> TRUE]

Meta(issuer, displayable) == [issuer |-> issuer, displayable |-> displayable]

\* An error object: its name, its message and e.response.status
\* (response is Undefined when the error carries no response property).
Err(name, message, response) ==
  [name |-> name, message |-> message, response |-> response]

TransportError(status) == Err("HTTPError", "request failed", status)

\* What the collaborator may answer instead of a result.
NoFault == [name |-> "none"]
Faults == {TransportError("404"), TransportError("500"),
           TransportError(Undefined)}

Returned(v) == [status |-> "returned", value |-> v]
Raised(e) == [status |-> "raised", error |-> e]
Running == [status |-> "running"]

NoDoc == [id |-> Undefined]
NoCall == [op |-> "none"]

-----------------------------------------------------------------------------
(* The vault collaborator, at its interface *)

\* An equality clause: the value required of each attribute, Undefined for an
\* attribute the clause does not constrain.
Clause(id, type, issuer, displayable) ==
  [id |-> id, type |-> type, issuer |-> issuer, displayable |-> displayable]

Satisfies(d, c) ==
  /\ c.id # Undefined => d.content.id = c.id
  /\ c.type # Undefined => d.content.type = c.type
  /\ c.issuer # Undefined => d.meta.issuer = c.issuer
  /\ c.displayable # Undefined => d.meta.displayable = c.displayable

\* find({equals}): the documents that satisfy at least one clause.
VaultFind(equals) ==
  {d \in docs : \E k \in 1..Len(equals) : Satisfies(d, equals[k])}

\* The sequences that list every element of S once.
Orderings(S) ==
  {s \in [1..Cardinality(S) -> S] : \A e \in S : \E k \in DOMAIN s : s[k] = e}

\* A collaborator call as the log records it: the operation, the equality
\* clauses it carried and the error the collaborator answered with, if any.
FindCall(equals, answer) ==
  [op |-> "find", equals |-> equals, answer |-> answer]

InsertCall(answer) == [op |-> "insert", equals |-> <<>>, answer |-> answer]

DeleteCall(answer) == [op |-> "delete", equals |-> <<>>, answer |-> answer]

Called(op) == \E k \in 1..Len(log) : log[k].op = op

-----------------------------------------------------------------------------
(* _getIssuer *)

MissingIssuer ==
  Err("Error", "A verifiable credential MUST have an issuer property", Undefined)

BadIssuer ==
  Err("Error", "The value of the issuer property MUST be either a URI or an object containing an id property.", Undefined)

\* if(!issuer)
IssuerTruthy(issuer) ==
  CASE issuer.kind = "undefined" -> FALSE
    [] issuer.kind = "string" -> Truthy(issuer.id)
    [] OTHER -> TRUE

\* typeof issuer === 'string' || typeof issuer.id === 'string'
IssuerShapeOk(issuer) ==
  \/ issuer.kind = "string"
  \/ issuer.kind = "object" /\ issuer.id # Undefined

_getIssuerUnchecked(credential) == Returned(credential.issuer.id)

_getIssuer(credential) ==
  IF ~IssuerTruthy(credential.issuer) THEN Raised(MissingIssuer)
  ELSE IF ~IssuerShapeOk(credential.issuer) THEN Raised(BadIssuer)
  ELSE Returned(credential.issuer.id)

-----------------------------------------------------------------------------
(* insert *)

\* meta = {} when the argument is absent
MetaOrDefault(meta) ==
  IF meta = NoMeta THEN Meta(Undefined, Undefined) ELSE meta

\* meta.issuer = this._getIssuer({credential})
MetaWithIssuer(meta, issuer) == [meta EXCEPT !.issuer = issuer]

StoredDoc(id, credential, meta) ==
  [id |-> id, content |-> credential, meta |-> meta]

\* The vault's answer to an insert that breaks a unique index.
DuplicateError == Err("DuplicateError", "Duplicate document.", "409")

Begin(c) ==
  /\ pc = "idle"
  /\ call' = c
  /\ before' = docs

\* The promise of the call has settled and the caller has its outcome; the
\* store keeps nothing of a call (its only fields are edvClient and
\* invocationSigner), so the next call starts from the vault alone.
Settle ==
  /\ pc = "done"
  /\ pc' = "idle"
  /\ call' = NoCall
  /\ out' = Running
  /\ log' = <<>>
  /\ before' = docs
  /\ callerMeta' = NoMeta
  /\ held' = NoDoc
  /\ pending' = {}
  /\ responses' = <<>>
  /\ UNCHANGED docs

Insert(credential, meta, docId) ==
  /\ Begin([op |-> "insert", credential |-> credential, meta |-> meta,
            docId |-> docId])
  /\ pc' = "done"
  /\ held' = NoDoc
  /\ pending' = {}
  /\ responses' = <<>>
  /\ LET issuer == _getIssuer(credential)
         m == MetaWithIssuer(MetaOrDefault(meta), issuer.value)
     IN IF issuer.status = "raised"
          THEN /\ out' = issuer
               /\ callerMeta' = meta
               /\ log' = <<>>
               /\ docs' = docs
          ELSE /\ callerMeta' = IF meta = NoMeta THEN NoMeta ELSE m
               /\ IF \/ \E d \in docs : d.content.id = credential.id
                     \/ \E d \in docs : d.id = docId
                    THEN /\ out' = Raised(DuplicateError)
                         /\ log' = <<InsertCall(DuplicateError)>>
                         /\ docs' = docs
                    ELSE \E id \in (IF docId = Undefined THEN VaultDocIds
                                                         ELSE {docId}) :
                           /\ \A d \in docs : d.id # id
                           /\ docs' = docs \cup {StoredDoc(id, credential, m)}
                           /\ log' = <<InsertCall(NoFault)>>
                           /\ out' = Returned([content |-> credential,
                                               documentId |-> id])

-----------------------------------------------------------------------------
(* get *)

\* The body of get declares `id` with const (line 44) although its parameter
\* list already binds `id` (line 33).  A lexical declaration that repeats a
\* parameter name is an early error, so no conforming build produces a get
\* that reaches its return statement; the call yields a SyntaxError.
RedeclaredId ==
  Err("SyntaxError", "Identifier 'id' has already been declared", Undefined)

Get(id) ==
  /\ Begin([op |-> "get", id |-> id])
  /\ pc' = "done"
  /\ out' = Raised(RedeclaredId)
  /\ log' = <<>>
  /\ callerMeta' = NoMeta
  /\ held' = NoDoc
  /\ pending' = {}
  /\ responses' = <<>>
  /\ UNCHANGED docs

-----------------------------------------------------------------------------
(* delete *)

StatusOfMissingResponse ==
  Err("TypeError", "Cannot read properties of undefined (reading 'status')",
      Undefined)

\* catch(e) { if(e.response.status === 404) return false; throw e; }
DeleteCatch(e) ==
  IF e.response = Undefined THEN Raised(StatusOfMissingResponse)
  ELSE IF e.response = "404" THEN Returned(FALSE)
  ELSE Raised(e)

DocMissingNever(doc) == FALSE

\* if(!doc)
DocMissing(doc) == doc = NoDoc

\* const {documents: [doc]} = await this.edvClient.find(...)
FirstDoc(found) ==
  IF found = {} THEN NoDoc ELSE CHOOSE d \in found : TRUE

ById(id) == <<Clause(id, Undefined, Undefined, Undefined)>>

\* delete, up to the end of the awaited lookup
DeleteLookup(id, fault) ==
  /\ Begin([op |-> "delete", id |-> id])
  /\ log' = <<FindCall(ById(id), fault)>>
  /\ callerMeta' = NoMeta
  /\ pending' = {}
  /\ responses' = <<>>
  /\ UNCHANGED docs
  /\ IF fault # NoFault
       THEN /\ out' = DeleteCatch(fault)
            /\ held' = NoDoc
            /\ pc' = "done"
       ELSE LET doc == FirstDoc(VaultFind(ById(id)))
            IN /\ held' = doc
               /\ IF DocMissing(doc)
                    THEN out' = Returned(FALSE) /\ pc' = "done"
                    ELSE out' = Running /\ pc' = "delete_found"

\* Another client of the same vault removes the document while this delete
\* is suspended between its lookup and its delete call.
RemovedByOther ==
  /\ pc = "delete_found"
  /\ held \in docs
  /\ docs' = docs \ {held}
  /\ UNCHANGED <<pc, call, out, log, before, callerMeta, held, pending,
                 responses>>

\* return this.edvClient.delete({doc, invocationSigner}): the promise is
\* returned without await, so the catch clause sees an error only when the
\* collaborator throws before it returns a promise (mode "throws"); a
\* rejection of the returned promise (mode "rejects") becomes the outcome of
\* delete as it is.  The vault answers 404 for a document it no longer holds.
DeleteRemove(fault, mode) ==
  /\ pc = "delete_found"
  /\ pc' = "done"
  /\ UNCHANGED <<call, before, callerMeta, held, pending, responses>>
  /\ LET e == IF fault # NoFault THEN fault
              ELSE IF held \notin docs THEN TransportError("404")
              ELSE NoFault
     IN /\ log' = Append(log, DeleteCall(e))
        /\ IF e = NoFault
             THEN /\ docs' = docs \ {held}
                  /\ out' = Returned(TRUE)
             ELSE /\ docs' = docs
                  /\ out' = IF mode = "throws" THEN DeleteCatch(e)
                                               ELSE Raised(e)

-----------------------------------------------------------------------------
(* The store specification: insert, get and delete over one vault *)

Init ==
  /\ docs = {}
  /\ pc = "idle"
  /\ call = NoCall
  /\ out = Running
  /\ log = <<>>
  /\ before = {}
  /\ callerMeta = NoMeta
  /\ held = NoDoc
  /\ pending = {}
  /\ responses = <<>>

StoreCredIds == {"c1", "c2"}

StoreIssuers ==
  {IssuerValue("string", "x"), IssuerValue("object", "y")} \cup InvalidIssuers

StoreMetas ==
  {NoMeta, Meta(Undefined, Undefined), Meta("y", "true"), Meta("x", "false")}

DoInsert ==
  \E id \in StoreCredIds, issuer \in StoreIssuers, meta \in StoreMetas,
     docId \in {Undefined, "d1"} :
    Insert(Credential(id, "A", issuer), meta, docId)

DoGet == \E id \in StoreCredIds : Get(id)

DoDeleteLookup == \E id \in StoreCredIds, fault \in Faults \cup {NoFault} :
  DeleteLookup(id, fault)

DoDeleteRemove ==
  \E fault \in Faults \cup {NoFault}, mode \in {"throws", "rejects"} :
    DeleteRemove(fault, mode)

Next ==
  DoInsert \/ DoGet \/ DoDeleteLookup \/ RemovedByOther \/ DoDeleteRemove
    \/ Settle

Spec == Init /\ [][Next]_vars

-----------------------------------------------------------------------------
(* Claims about insert, get and delete *)

\* C1 (as claimed): once insert has stored credential C, get({id: C.id})
\* returns the record {content, meta, documentId} of the stored document,
\* with content = C, meta.issuer the issuer id derived from C.issuer, and
\* documentId the vault document's id.
C1_InsertGetRoundTrip ==
  \A d \in docs :
    (call.op = "get" /\ pc = "done" /\ d.content.id = call.id) =>
      /\ out = Returned([content |-> d.content, meta |-> d.meta,
                         documentId |-> d.id])
      /\ d.meta.issuer = d.content.issuer.id

\* Every stored document carries the issuer id derived from its credential
\* (the insert half of C1).
StoredIssuerDerived ==
  \A d \in docs :
    /\ IssuerShapeOk(d.content.issuer)
    /\ d.meta.issuer = d.content.issuer.id

\* The issuers C8 speaks of: absent, or neither a string nor an object with
\* a string id.
InvalidIssuer(issuer) ==
  \/ issuer.kind = "undefined"
  \/ ~(issuer.kind = "string" \/ (issuer.kind = "object" /\ issuer.id # Undefined))

InvalidInsertEnded ==
  call.op = "insert" /\ pc = "done" /\ InvalidIssuer(call.credential.issuer)

DeleteEnded == call.op = "delete" /\ pc = "done"

\* C4 (as claimed): when the collaborator raises an error during delete, from
\* the lookup or from its delete call, delete returns false if the error's
\* status is 404 and otherwise re-raises that same error unchanged.
C4_DeleteErrorTranslation ==
  (DeleteEnded /\ log[Len(log)].answer # NoFault) =>
    LET e == log[Len(log)].answer
    IN IF e.response = "404" THEN out = Returned(FALSE) ELSE out = Raised(e)

\* C7: when no stored document has content.id = id and the vault answers the
\* lookup, delete({id}) returns false, raises no error, issues no collaborator
\* delete call and leaves the stored documents unchanged (so that a second
\* call finds the same state and gives the same result).
C7_DeleteAbsentIsFalse ==
  ( /\ DeleteEnded
    /\ ~\E d \in before : d.content.id = call.id
    /\ log[1].answer = NoFault ) =>
      /\ out = Returned(FALSE)
      /\ ~Called("delete")
      /\ Len(log) = 1
      /\ docs = before

\* A delete of an id no document has, on a vault that holds another document.
C7_Witness ==
  /\ DeleteEnded
  /\ ~\E d \in before : d.content.id = call.id
  /\ log[1].answer = NoFault
  /\ before # {}
  /\ out = Returned(FALSE)

-----------------------------------------------------------------------------
(* Arguments that may be absent, a single value or an array *)

Absent == [absent |-> TRUE]
Scalar(v) == [isArray |-> FALSE, value |-> v]
Array(items) == [isArray |-> TRUE, items |-> items]

\* Array.isArray(v) ? v : [v]
AsArray(v) == IF v.isArray THEN v.items ELSE <<v.value>>

SeqsUpTo(S, n) == UNION {[1..k -> S] : k \in 0..n}

-----------------------------------------------------------------------------
(* find *)

\* One filter spec {type, issuer, displayable}: Undefined for a property the
\* spec does not supply.
FilterSpec(type, issuer, displayable) ==
  [type |-> type, issuer |-> issuer, displayable |-> displayable]

\* const entry = {}; if(type) ...; if(issuer) ...; if(displayable) ...
FindEntry(spec) ==
  Clause(Undefined,
         IF Truthy(spec.type) THEN spec.type ELSE Undefined,
         IF Truthy(spec.issuer) THEN spec.issuer ELSE Undefined,
         IF Truthy(spec.displayable) THEN spec.displayable ELSE Undefined)

FindEquals(query) == [k \in 1..Len(query) |-> FindEntry(query[k])]

\* ({content, meta, id}) => ({content, meta, documentId: id})
ToRecord(d) == [content |-> d.content, meta |-> d.meta, documentId |-> d.id]

ToRecords(ds) == [k \in 1..Len(ds) |-> ToRecord(ds[k])]

QueryRequired ==
  Err("TypeError", "\"query\" is a required parameter.", Undefined)

\* find, up to its await of the collaborator's find
Find(query) ==
  /\ Begin([op |-> "find", query |-> query])
  /\ callerMeta' = NoMeta
  /\ held' = NoDoc
  /\ pending' = {}
  /\ responses' = <<>>
  /\ UNCHANGED docs
  /\ IF query = Absent
       THEN /\ out' = Raised(QueryRequired)
            /\ log' = <<>>
            /\ pc' = "done"
       ELSE /\ out' = Running
            /\ log' = <<FindCall(FindEquals(AsArray(query)), NoFault)>>
            /\ pc' = "find_wait"

\* find, from the collaborator's answer to its return
FindRespond(fault) ==
  /\ pc = "find_wait"
  /\ pc' = "done"
  /\ UNCHANGED <<docs, call, before, callerMeta, held, pending, responses>>
  /\ IF fault # NoFault
       THEN /\ out' = Raised(fault)
            /\ log' = [log EXCEPT ![1].answer = fault]
       ELSE /\ log' = log
            /\ \E found \in Orderings(VaultFind(log[1].equals)) :
                 out' = Returned(ToRecords(found))

-----------------------------------------------------------------------------
(* match and _queryByExample *)

ExampleClause(type, trustedIssuer) ==
  [example |-> [type |-> type], trustedIssuer |-> trustedIssuer]

IssuerRef(id) == [id |-> id]

\* A credentialQuery that is neither an object nor an array (a string).
NonObject == [nonObject |-> TRUE]

UnsupportedType(type) ==
  Err("Error", "Unsupported query type: \"" \o type \o "\"", Undefined)

CredentialQueryNeeded ==
  Err("Error", "\"credentialQuery\" is needed to execute a QueryByExample.",
      Undefined)

CredentialQueryNotObject ==
  Err("Error", "\"credentialQuery\" must be an object or an array.", Undefined)

IssuerWithoutId ==
  Err("NotSupportedError", "trustedIssuer without an \"id\" is unsupported.",
      Undefined)

AnyQueryType(type) == TRUE

\* if(type === 'QueryByExample')
IsQueryByExample(type) == type = "QueryByExample"

\* {example, trustedIssuer = []}, then the normalisation to an array
TrustedIssuers(clause) ==
  IF clause.trustedIssuer = Absent THEN <<>> ELSE AsArray(clause.trustedIssuer)

\* The filter specs of one clause, every type with the first issuer only.
ExpansionFirstIssuer(types, issuers) ==
  [k \in 1..Len(types) |->
     FilterSpec(types[k], IF Len(issuers) = 0 THEN Undefined ELSE issuers[1],
                Undefined)]

\* for(const type of types) { if(issuers.length === 0) { query.push({type});
\* continue; } for(const issuer of issuers) { query.push({type, issuer}); } }
Expansion(types, issuers) ==
  IF Len(issuers) = 0
    THEN [k \in 1..Len(types) |-> FilterSpec(types[k], Undefined, Undefined)]
    ELSE [k \in 1..(Len(types) * Len(issuers)) |->
            FilterSpec(types[((k - 1) \div Len(issuers)) + 1],
                       issuers[((k - 1) % Len(issuers)) + 1],
                       Undefined)]

\* _query, up to its call of this.find: the query list it passes to find, or
\* the error it throws
_query(clause) ==
  LET trustedIssuers == TrustedIssuers(clause)
      types == AsArray(clause.example.type)
  IN IF \E k \in 1..Len(trustedIssuers) : ~Truthy(trustedIssuers[k].id)
       THEN Raised(IssuerWithoutId)
       ELSE Returned(Expansion(types,
              [k \in 1..Len(trustedIssuers) |-> trustedIssuers[k].id]))

\* The records of the response to clause i.
ResultOf(resps, i) ==
  (CHOOSE k \in 1..Len(resps) : resps[k].clause = i) 

RECURSIVE FlattenInCompletionOrder(_, _)
FlattenInCompletionOrder(resps, n) ==
  IF n = 0 THEN <<>>
  ELSE FlattenInCompletionOrder(resps, n - 1) \o resps[n].records

\* requiredCredentials.reduce((acc, val) => acc.concat(val), []), where
\* requiredCredentials[i] is what Promise.all holds for clause i
RECURSIVE Flatten(_, _)
Flatten(resps, n) ==
  IF n = 0 THEN <<>>
  ELSE Flatten(resps, n - 1) \o resps[ResultOf(resps, n)].records

\* The engine argument: the identity by default, or a caller's transform.
Engines == {"identity", "contentOnly"}

ApplyEngine(engine, r) ==
  IF engine = "identity" THEN r ELSE [picked |-> r.content]

\* results.map(engine)
MapEngine(engine, rs) == [k \in 1..Len(rs) |-> ApplyEngine(engine, rs[k])]

\* match, _queryByExample and every _query up to the await of Promise.all:
\* query.map(_query) runs each _query in turn, and each runs without
\* suspending until find has called the collaborator.
Match(query, engine) ==
  /\ Begin([op |-> "match", query |-> query, engine |-> engine])
  /\ callerMeta' = NoMeta
  /\ held' = NoDoc
  /\ responses' = <<>>
  /\ UNCHANGED docs
  /\ IF ~IsQueryByExample(query.type)
       THEN /\ out' = Raised(UnsupportedType(query.type))
            /\ log' = <<>> /\ pending' = {} /\ pc' = "done"
     ELSE IF query.credentialQuery = Absent
       THEN /\ out' = Raised(CredentialQueryNeeded)
            /\ log' = <<>> /\ pending' = {} /\ pc' = "done"
     ELSE IF query.credentialQuery = NonObject
       THEN /\ out' = Raised(CredentialQueryNotObject)
            /\ log' = <<>> /\ pending' = {} /\ pc' = "done"
     ELSE
       LET clauses == AsArray(query.credentialQuery)
           n == Len(clauses)
           expanded == [i \in 1..n |-> _query(clauses[i])]
           sent == SelectSeq(expanded, LAMBDA e : e.status = "returned")
       IN /\ log' = [k \in 1..Len(sent) |->
                       FindCall(FindEquals(sent[k].value), NoFault)]
          /\ IF \E i \in 1..n : expanded[i].status = "raised"
               THEN /\ out' = Raised(IssuerWithoutId)
                    /\ pending' = {} /\ pc' = "done"
             ELSE IF n = 0
               THEN /\ out' = Returned(<<>>)
                    /\ pending' = {} /\ pc' = "done"
             ELSE /\ out' = Running
                  /\ pending' = 1..n /\ pc' = "match_wait"

\* The collaborator answers the lookup of clause i; Promise.all rejects with
\* the first error, and resolves when the last lookup has been answered.
MatchRespond(i, fault) ==
  /\ pc = "match_wait"
  /\ i \in pending
  /\ UNCHANGED <<docs, call, before, callerMeta, held>>
  /\ IF fault # NoFault
       THEN /\ out' = Raised(fault)
            /\ log' = [log EXCEPT ![i].answer = fault]
            /\ pending' = {}
            /\ responses' = responses
            /\ pc' = "done"
       ELSE /\ log' = log
            /\ pending' = pending \ {i}
            /\ \E found \in Orderings(VaultFind(log[i].equals)) :
                 /\ responses' = Append(responses,
                      [clause |-> i, records |-> ToRecords(found)])
                 /\ IF pending' = {}
                      THEN /\ out' = Returned(MapEngine(call.engine,
                                       Flatten(responses', Len(log))))
                           /\ pc' = "done"
                      ELSE /\ out' = out
                           /\ pc' = pc

-----------------------------------------------------------------------------
(* The query specification: find and match over a vault filled by insert *)

QueryInserts ==
  { <<Credential("c1", "A", IssuerValue("string", "x")),
      Meta(Undefined, "true"), "d1">>,
    <<Credential("c2", "A", IssuerValue("object", "y")),
      Meta("x", "false"), "d2">>,
    <<Credential("c3", "B", IssuerValue("string", "x")), NoMeta, "d3">> }

FilterSpecs ==
  {FilterSpec(t, i, d) : t \in {Undefined, "A"}, i \in {Undefined, "x"},
                         d \in {Undefined, "true", "false"}}

SampleSpecs ==
  { FilterSpec("A", Undefined, Undefined),
    FilterSpec(Undefined, "x", Undefined),
    FilterSpec("A", Undefined, "false"),
    FilterSpec(Undefined, Undefined, "true") }

FindQueries ==
  {Absent} \cup {Scalar(s) : s \in FilterSpecs}
           \cup {Array(q) : q \in SeqsUpTo(SampleSpecs, MaxSpecs)}

TypeInputs ==
  {Scalar(t) : t \in Types \cup {Undefined}}
    \cup {Array(ts) : ts \in SeqsUpTo(Types, MaxLen)}

IssuerRefs == {IssuerRef(i) : i \in IssuerIds \cup {Undefined}}

TrustedIssuerInputs ==
  {Absent} \cup {Scalar(r) : r \in IssuerRefs}
           \cup {Array(rs) : rs \in SeqsUpTo(IssuerRefs, MaxLen)}

AllClauses ==
  {ExampleClause(t, s) : t \in TypeInputs, s \in TrustedIssuerInputs}

SampleClauses ==
  { ExampleClause(Scalar("A"), Absent),
    ExampleClause(Array(<<"A", "B">>), Array(<<IssuerRef("x"), IssuerRef("y")>>)),
    ExampleClause(Scalar("B"), Scalar(IssuerRef("x"))),
    ExampleClause(Scalar("A"), Array(<<IssuerRef(Undefined)>>)) }

MatchQueries ==
  {[type |-> t, credentialQuery |-> Absent] :
     t \in {"PresentationExchange", Undefined, "QueryByExample"}}
  \cup {[type |-> "QueryByExample", credentialQuery |-> NonObject]}
  \cup {[type |-> t, credentialQuery |-> Scalar(c)] :
          t \in {"PresentationExchange", Undefined}, c \in SampleClauses}
  \cup {[type |-> "QueryByExample", credentialQuery |-> Scalar(c)] :
          c \in AllClauses}
  \cup {[type |-> "QueryByExample", credentialQuery |-> Array(cs)] :
          cs \in SeqsUpTo(SampleClauses, MaxClauses)}

QueryFaults == {NoFault, TransportError("500")}

DoQueryInsert == \E a \in QueryInserts : Insert(a[1], a[2], a[3])

DoFind == \E query \in FindQueries : Find(query)

DoFindRespond == \E fault \in QueryFaults : FindRespond(fault)

DoMatch == \E query \in MatchQueries, engine \in Engines : Match(query, engine)

DoMatchRespond ==
  \E i \in pending, fault \in QueryFaults : MatchRespond(i, fault)

NextQuery ==
  DoQueryInsert \/ DoFind \/ DoFindRespond \/ DoMatch \/ DoMatchRespond
    \/ Settle

SpecQuery == Init /\ [][NextQuery]_vars

-----------------------------------------------------------------------------
(* Claims about find and match *)

Range(f) == {f[k] : k \in DOMAIN f}

\* How many positions of the sequence q hold the value v.
Occurrences(q, v) == Cardinality({k \in DOMAIN q : q[k] = v})

\* A match call that reached the clauses of its credentialQuery.
MatchOfClauses ==
  /\ call.op = "match"
  /\ call.query.type = "QueryByExample"
  /\ call.query.credentialQuery \notin {Absent, NonObject}

ClausesOf(query) == AsArray(query.credentialQuery)

HasIssuerWithoutId(clause) ==
  \E r \in Range(TrustedIssuers(clause)) : r.id = Undefined

HasMissingType(clause) ==
  \E t \in Range(AsArray(clause.example.type)) : t = Undefined

\* The equality clauses C2 expects for type list T and trusted-issuer list S,
\* each with the number of times it is expected.
ExpectedCount(T, S, c) ==
  IF Len(S) = 0
    THEN Cardinality({a \in 1..Len(T) :
           c = Clause(Undefined, T[a], Undefined, Undefined)})
    ELSE Cardinality({p \in (1..Len(T)) \X (1..Len(S)) :
           c = Clause(Undefined, T[p[1]], S[p[2]].id, Undefined)})

\* C2: for every QueryByExample clause with type list T and trusted-issuer
\* list S, the equality clauses submitted for it are, when S is empty, one
\* clause {content.type: t} per t in T with no issuer constraint, and
\* otherwise one clause {content.type: t, meta.issuer: s.id} per pair (t, s),
\* |T| * |S| in all, none missing and none extra.
C2_QueryExpansion ==
  ( /\ MatchOfClauses
    /\ pc \in {"match_wait", "done"}
    /\ \A c \in Range(ClausesOf(call.query)) : ~HasIssuerWithoutId(c) ) =>
      /\ Len(log) = Len(ClausesOf(call.query))
      /\ \A i \in 1..Len(log) :
           LET T == AsArray(ClausesOf(call.query)[i].example.type)
               S == TrustedIssuers(ClausesOf(call.query)[i])
               sent == log[i].equals
           IN (\A t \in Range(T) : t \in Types) =>
                /\ log[i].op = "find"
                /\ Len(sent) = IF Len(S) = 0 THEN Len(T) ELSE Len(T) * Len(S)
                /\ \A c \in Range(sent) :
                     Occurrences(sent, c) = ExpectedCount(T, S, c)
                /\ \A a \in 1..Len(T) :
                     IF Len(S) = 0
                       THEN Clause(Undefined, T[a], Undefined, Undefined)
                              \in Range(sent)
                       ELSE \A b \in 1..Len(S) :
                              Clause(Undefined, T[a], S[b].id, Undefined)
                                \in Range(sent)

\* A clause of two types and two trusted issuers, submitted as four equality
\* clauses.
C2_Witness ==
  /\ MatchOfClauses
  /\ pc \in {"match_wait", "done"}
  /\ Len(ClausesOf(call.query)) = 1
  /\ ClausesOf(call.query)[1] =
       ExampleClause(Array(<<"A", "B">>),
                     Array(<<IssuerRef("x"), IssuerRef("y")>>))
  /\ Len(log) = 1
  /\ Len(log[1].equals) = 4

\* The records of the response to clause i, found by its clause number.
RecordsOfClause(i) ==
  (CHOOSE r \in Range(responses) : r.clause = i).records

RECURSIVE InClauseOrder(_, _)
InClauseOrder(i, n) ==
  IF i > n THEN <<>> ELSE RecordsOfClause(i) \o InClauseOrder(i + 1, n)

\* C3: the lookups of all n clauses are dispatched before any of them is
\* awaited, and whatever the order in which the collaborator completes them,
\* match returns result(c1) ++ ... ++ result(cn) in clause order, each record
\* mapped through the transform, none dropped or de-duplicated: a document
\* matched by k clauses appears k times.
C3_ClauseOrderConcatenation ==
  /\ (call.op = "match" /\ pc = "match_wait") =>
       /\ Len(log) = Len(ClausesOf(call.query))
       /\ \A k \in 1..Len(log) : log[k].op = "find"
       /\ pending \cup {r.clause : r \in Range(responses)} = 1..Len(log)
  /\ (MatchOfClauses /\ pc = "done" /\ out.status = "returned") =>
       LET n == Len(ClausesOf(call.query))
       IN /\ Len(log) = n
          /\ \A i \in 1..n : \E r \in Range(responses) : r.clause = i
          /\ out.value = MapEngine(call.engine, InClauseOrder(1, n))
          /\ \A d \in docs :
               Occurrences(out.value, ApplyEngine(call.engine, ToRecord(d)))
                 = Cardinality({i \in 1..n : d \in VaultFind(log[i].equals)})

\* A match of two clauses whose second lookup completed first, with a
\* document that both clauses match and that the result holds twice.
C3_Witness ==
  /\ MatchOfClauses /\ pc = "done" /\ out.status = "returned"
  /\ Len(ClausesOf(call.query)) = 2
  /\ responses[1].clause = 2
  /\ responses[1].records # responses[2].records
  /\ \E d \in docs :
       Occurrences(out.value, ApplyEngine(call.engine, ToRecord(d))) = 2

\* The configuration and not-supported errors of match.
IsConfigurationOrNotSupported(e) ==
  \/ e \in {CredentialQueryNeeded, CredentialQueryNotObject, IssuerWithoutId}
  \/ e = UnsupportedType(call.query.type)

\* C5 (as claimed): a match call that ends with a configuration or
\* not-supported error has made no collaborator call.
C5_FailFastNoCollaboratorCall ==
  ( /\ call.op = "match" /\ pc = "done" /\ out.status = "raised"
    /\ IsConfigurationOrNotSupported(out.error) ) => log = <<>>

\* The equality clause C6 expects for a filter spec: a constraint for each of
\* type, issuer, displayable the spec supplies, whatever the value.
ClauseOfSupplied(spec) ==
  Clause(Undefined, spec.type, spec.issuer, spec.displayable)

\* C6 (as claimed): find submits, in one collaborator request, exactly one
\* clause per filter spec, constraining content.type, meta.issuer and
\* meta.displayable for precisely the properties the spec supplies, whatever
\* the supplied value; and it returns exactly the documents that satisfy one
\* of the specs.
C6_FindClausesAsSupplied ==
  ( /\ call.op = "find" /\ call.query # Absent
    /\ pc \in {"find_wait", "done"} ) =>
      LET specs == AsArray(call.query)
      IN /\ Len(log) = 1
         /\ log[1].op = "find"
         /\ log[1].equals = [k \in 1..Len(specs) |-> ClauseOfSupplied(specs[k])]
         /\ (pc = "done" /\ out.status = "returned") =>
              Range(out.value) =
                {ToRecord(d) : d \in {e \in docs :
                   \E k \in 1..Len(specs) :
                     Satisfies(e, ClauseOfSupplied(specs[k]))}}

UnsupportedMatchEnded ==
  call.op = "match" /\ pc = "done" /\ call.query.type # "QueryByExample"

\* The message names the unsupported type.
NamesType(message, type) ==
  \/ type = "PresentationExchange"
       /\ message = "Unsupported query type: \"PresentationExchange\""
  \/ type = Undefined /\ message = "Unsupported query type: \"undefined\""

C10_MissingTypeRejected ==
  ( /\ MatchOfClauses
    /\ pc \in {"match_wait", "done"}
    /\ \E c \in Range(ClausesOf(call.query)) : HasMissingType(c) ) =>
      /\ pc = "done" /\ out.status = "raised"
      /\ \A k \in 1..Len(log) : \A c \in Range(log[k].equals) :
           c.type # Undefined

====
